---- MODULE Spec2Model ----
(***************************************************************************)
(* Model of the dp832 terminal front end (src/dp832/src/main.rs) and of    *)
(* the DP800 line-protocol client it drives (src/dp800/src/lib.rs).        *)
(*                                                                         *)
(* run_app is one cooperative task.  Its steps are the segments between    *)
(* two suspension points (.await): a key handler, the call of on_tick, the *)
(* write of one query, the read of one response line, the backoff sleep.   *)
(* The device and the TCP stream are the environment: the device answers   *)
(* the requests it received in order, or never answers one.                *)
(***************************************************************************)
EXTENDS Integers, Sequences, FiniteSets, TLC

VARIABLES
    pc,           \* position of run_app: startup, poll, tick, backoff, settle, quit,
                  \* fatal, panic
    attempt,      \* loop variable of the retry loop, 0 outside the loop
    phase,        \* position of on_tick: idle, call, read
    idx,          \* on_tick: channel being sampled (ch_idx), 0 when idle
    qn,           \* on_tick: number of the query in flight for that channel
    tmp,          \* on_tick: the field values read so far for that channel
    data,         \* App.data, the Snapshot
    ch,           \* App.ch, the channel cursor (u8)
    vsel,         \* App.vsel, the field cursor
    input_title,  \* App.input_title, non-empty exactly in text entry
    input,        \* App.input, the text buffer
    sent,         \* queries written to the socket the device has not yet handled
    rx,           \* response lines that arrived and were not yet read
    cmd,          \* the command written by the latest key handler
    run,          \* number of on_tick calls so far
    ticks,        \* number of sampling passes started by the loop
    results,      \* how each on_tick call of the current pass ended
    data0,        \* the Snapshot when the current pass started
    issued,       \* queries written and slots stored by the current on_tick call
    key,          \* key.code of the key event handled last, "none" outside a handler
    stream,       \* Dp800::q alone: what the socket delivers to its read_line
    reply,        \* Dp800::q alone: what the call returned
    arg,          \* Measurement::from_str alone: the response line handed to it
    parsed        \* Measurement::from_str alone: what it returned

vars == <<pc, attempt, phase, idx, qn, tmp, data, ch, vsel, input_title, input,
          sent, rx, cmd, run, ticks, results, data0, issued, key, stream, reply,
          arg, parsed>>

(***************************************************************************)
(* Program constants and model bounds                                      *)
(***************************************************************************)
NUM_CH == 3
NUM_RETRY == 3
INPUT_CAP == 16
U8 == 256

MaxTicks == 1
MaxInput == 2
MaxBytes == 3
MaxLine == 6

Channels == 1..NUM_CH

(***************************************************************************)
(* Vsel: the 7-valued field cursor                                         *)
(***************************************************************************)
VselSet == {"Measure", "SetVolt", "SetAmp", "Ovp", "Ocp", "OvpOn", "OcpOn"}

VselNext_skip(v) ==
    CASE v = "Measure" -> "SetVolt"
      [] v = "SetVolt" -> "SetAmp"
      [] v = "SetAmp"  -> "Ovp"
      [] v = "Ovp"     -> "Ocp"
      [] v = "Ocp"     -> "OvpOn"
      [] v = "OvpOn"   -> "Measure"
      [] v = "OcpOn"   -> "Measure"

VselNext(v) ==
    CASE v = "Measure" -> "SetVolt"
      [] v = "SetVolt" -> "SetAmp"
      [] v = "SetAmp"  -> "Ovp"
      [] v = "Ovp"     -> "Ocp"
      [] v = "Ocp"     -> "OvpOn"
      [] v = "OvpOn"   -> "OcpOn"
      [] v = "OcpOn"   -> "Measure"

VselPrev(v) ==
    CASE v = "Measure" -> "OcpOn"
      [] v = "SetVolt" -> "Measure"
      [] v = "SetAmp"  -> "SetVolt"
      [] v = "Ovp"     -> "SetAmp"
      [] v = "Ocp"     -> "Ovp"
      [] v = "OvpOn"   -> "Ocp"
      [] v = "OcpOn"   -> "OvpOn"

(***************************************************************************)
(* The channel cursor, a u8                                                *)
(***************************************************************************)
ChNext(c) ==
    LET n == (c + 1) % U8
    IN  IF n > NUM_CH THEN 1 ELSE n

ChPrev_nowrap(c) == (c + U8 - 1) % U8

ChPrev(c) ==
    LET n == (c + U8 - 1) % U8
    IN  IF n = 0 THEN NUM_CH ELSE n

(***************************************************************************)
(* The wire: queries, response lines, typed parsing                        *)
(***************************************************************************)
QName_swapped ==
    <<"measure", "output_state", "current", "voltage",
      "ovp", "ocp", "ovp_on", "ocp_on">>

\* The queries of one channel in the order on_tick evaluates them.
QName ==
    <<"measure", "output_state", "voltage", "current",
      "ovp", "ocp", "ovp_on", "ocp_on">>

NUM_Q == Len(QName)

\* The textual shape of the response to a query: "V,A,W", "ON"/"OFF", a number.
Shape(q) ==
    CASE q = "measure" -> "meas"
      [] q \in {"output_state", "ovp_on", "ocp_on"} -> "bool"
      [] OTHER -> "num"

Req(c, k, r) == [q |-> QName[k], ch |-> c, run |-> r]

\* The line the device sends for a request: its shape and what it reports,
\* the state of that quantity of that channel at the time of that on_tick call.
Line(req) == [shape |-> Shape(req.q), v |-> req]

\* q_parse::<F>: the line parses as the type the query expects.
ParseOk(line, q) == line.shape = Shape(q)

NoReq == [q |-> "none", ch |-> 0, run |-> 0]

\* A parsed value.  of: the request whose answer the line is (what the device
\* reported); by: the query whose read_line returned the line; part: the
\* comma field of a measurement line (1 voltage, 2 current, 3 power), 0 for
\* a one-field line.
Val(line, by, part) == [of |-> line.v, by |-> by, part |-> part]

DefaultVal == [of |-> NoReq, by |-> NoReq, part |-> 0]

\* State -> bool of a reported toggle; Data::default() is false.
BoolOf(val) == val.of.run % 2 = 1

(***************************************************************************)
(* Data, one slot of the Snapshot                                          *)
(***************************************************************************)
DefaultData ==
    [output_state |-> DefaultVal, meas_voltage |-> DefaultVal,
     meas_current |-> DefaultVal, meas_power |-> DefaultVal,
     sp_voltage |-> DefaultVal, sp_current |-> DefaultVal,
     limit_voltage |-> DefaultVal, limit_current |-> DefaultVal,
     ovp_on |-> DefaultVal, ocp_on |-> DefaultVal]

ApplyLine_mixed(t, by, line) ==
    CASE by.q = "measure" ->
           [t EXCEPT !.meas_voltage = Val(line, by, 1),
                     !.meas_current = Val(line, by, 2),
                     !.meas_power = Val(line, by, 3)]
      [] by.q = "output_state" -> [t EXCEPT !.output_state = Val(line, by, 0)]
      [] by.q = "voltage" -> [t EXCEPT !.sp_voltage = Val(line, by, 0)]
      [] by.q = "current" -> [t EXCEPT !.sp_current = Val(line, by, 0)]
      [] by.q = "ovp" -> [t EXCEPT !.limit_current = Val(line, by, 0)]
      [] by.q = "ocp" -> [t EXCEPT !.limit_current = Val(line, by, 0)]
      [] by.q = "ovp_on" -> [t EXCEPT !.ovp_on = Val(line, by, 0)]
      [] by.q = "ocp_on" -> [t EXCEPT !.ocp_on = Val(line, by, 0)]

\* The field(s) of the Data under construction that the line read by query
\* `by` fills.
ApplyLine(t, by, line) ==
    CASE by.q = "measure" ->
           [t EXCEPT !.meas_voltage = Val(line, by, 1),
                     !.meas_current = Val(line, by, 2),
                     !.meas_power = Val(line, by, 3)]
      [] by.q = "output_state" -> [t EXCEPT !.output_state = Val(line, by, 0)]
      [] by.q = "voltage" -> [t EXCEPT !.sp_voltage = Val(line, by, 0)]
      [] by.q = "current" -> [t EXCEPT !.sp_current = Val(line, by, 0)]
      [] by.q = "ovp" -> [t EXCEPT !.limit_voltage = Val(line, by, 0)]
      [] by.q = "ocp" -> [t EXCEPT !.limit_current = Val(line, by, 0)]
      [] by.q = "ovp_on" -> [t EXCEPT !.ovp_on = Val(line, by, 0)]
      [] by.q = "ocp_on" -> [t EXCEPT !.ocp_on = Val(line, by, 0)]

\* A buggy sampler that writes each field into the slot as soon as it is read.
Store_fieldwise(d, i, k, t) == [d EXCEPT ![i] = t]

\* *data = Data { .. }: the slot is assigned once the last field was evaluated.
Store(d, i, k, t) == IF k = NUM_Q THEN [d EXCEPT ![i] = t] ELSE d

(***************************************************************************)
(* The retry loop of run_app                                               *)
(***************************************************************************)
\* The loop variable after an attempt that returned Ok(Ok(())): the for loop
\* has no break, so it goes on to the next attempt; 0 stands for leaving it.
AfterOk(a) == IF a < NUM_RETRY THEN a + 1 ELSE 0

AfterTimeout_noretry(a) == "fatal"

AfterTimeout_lenient(a) == IF a > NUM_RETRY THEN "fatal" ELSE "backoff"

\* Where run_app goes when the per-attempt timeout elapsed in attempt a.
AfterTimeout(a) == IF a = NUM_RETRY THEN "fatal" ELSE "backoff"

Result(res) == [res |-> res, idx |-> idx, run |-> run]

(***************************************************************************)
(* Text entry: the buffer and its parse                                    *)
(***************************************************************************)
Digits == {"0", "1", "2", "3", "4", "5", "6", "7", "8", "9"}

\* The characters the model types; "x" stands for a key that is neither a
\* digit nor the decimal point (nor q).
Keys == {"0", "1", ".", "x"}

\* KeyCode::Char(c @ ('0'..='9' | '.'))
Accepted == Digits \cup {"."}

\* Keys the operator holds down: an entry longer than MaxInput characters is
\* a run of one of them.
Held == {"0", "."}

\* What the model lets the operator type into buffer s.
Typeable(s, c) ==
    \/ c \notin Accepted
    \/ Len(s) < MaxInput
    \/ c \in Held /\ \A i \in 1..Len(s) : s[i] = c

Push_nocap(s, c) == IF c \in Accepted THEN Append(s, c) ELSE s

\* The Char arm of text entry: a digit or '.' is pushed while the buffer is
\* shorter than 16, any other character falls to the arm `_ => ()`.
Push(s, c) ==
    IF c \in Accepted /\ Len(s) < INPUT_CAP THEN Append(s, c) ELSE s

Pop(s) == IF s = <<>> THEN s ELSE SubSeq(s, 1, Len(s) - 1)

DigitVal(c) ==
    CASE c = "0" -> 0 [] c = "1" -> 1 [] c = "2" -> 2 [] c = "3" -> 3
      [] c = "4" -> 4 [] c = "5" -> 5 [] c = "6" -> 6 [] c = "7" -> 7
      [] c = "8" -> 8 [] c = "9" -> 9

NumDots(s) == Cardinality({i \in 1..Len(s) : s[i] = "."})
NumDigits(s) == Cardinality({i \in 1..Len(s) : s[i] \in Digits})

\* str::parse::<f32> on a string of digits and dots.
IsNumber(s) == NumDots(s) <= 1 /\ NumDigits(s) >= 1

DotPos(s) ==
    IF NumDots(s) = 0 THEN Len(s) + 1
    ELSE CHOOSE i \in 1..Len(s) : s[i] = "."

RECURSIVE IntOf(_)
IntOf(s) == IF s = <<>> THEN 0
            ELSE 10 * IntOf(SubSeq(s, 1, Len(s) - 1)) + DigitVal(s[Len(s)])

FracDigit(s, k) ==
    LET p == DotPos(s) + k
    IN  IF p <= Len(s) THEN DigitVal(s[p]) ELSE 0

\* The parsed value as the {:.3} format writes it, in thousandths.  The f32
\* nearest to a decimal below 8388 with at most three fraction digits prints
\* as these digits again; the buffers typed here are far below.
Milli(s) ==
    1000 * IntOf(SubSeq(s, 1, DotPos(s) - 1))
    + 100 * FracDigit(s, 1) + 10 * FracDigit(s, 2) + FracDigit(s, 3)
    + (IF FracDigit(s, 4) >= 5 THEN 1 ELSE 0)

NoCmd == [op |-> "none", ch |-> 0, state |-> "", milli |-> 0]
StateCmd(op, c, b) ==
    [op |-> op, ch |-> c, state |-> IF b THEN "ON" ELSE "OFF", milli |-> 0]
ValueCmd(op, c, m) == [op |-> op, ch |-> c, state |-> "", milli |-> m]

Title_swapped(v) ==
    CASE v = "SetVolt" -> "Current Setpoint (A)"
      [] v = "SetAmp" -> "Voltage Setpoint (V)"
      [] v = "Ovp" -> "Over Voltage Protection (V)"
      [] v = "Ocp" -> "Over Current Protection (A)"
      [] OTHER -> ""

Title(v) ==
    CASE v = "SetVolt" -> "Voltage Setpoint (V)"
      [] v = "SetAmp" -> "Current Setpoint (A)"
      [] v = "Ovp" -> "Over Voltage Protection (V)"
      [] v = "Ocp" -> "Over Current Protection (A)"
      [] OTHER -> ""

SetOp_swapped(v) ==
    CASE v = "SetVolt" -> "set_voltage"
      [] v = "SetAmp" -> "set_current"
      [] v = "Ovp" -> "set_ocp"
      [] v = "Ocp" -> "set_ovp"
      [] OTHER -> "unreachable"

SetOp(v) ==
    CASE v = "SetVolt" -> "set_voltage"
      [] v = "SetAmp" -> "set_current"
      [] v = "Ovp" -> "set_ovp"
      [] v = "Ocp" -> "set_ocp"
      [] OTHER -> "unreachable"

\* App::ch_data
ChData == data[ch]

Toggled_same(val) == BoolOf(val)

\* !app.ch_data().output_state (ovp_on, ocp_on): the negation of the flag
\* in the slot of the current channel.
Toggled(val) == ~BoolOf(val)

AfterSetCh_nodelay == "poll"

\* Where run_app stands after set_ch was written: in the 50 ms sleep.
AfterSetCh == "settle"

\* Nothing was handed to Dp800::q / nothing returned yet.
NoStream == [bytes |-> <<>>, end |-> "none", wr |-> TRUE]
NoReply == [res |-> "none", text |-> <<>>, used |-> 0]
NoParse == [res |-> "none", voltage |-> 0, current |-> 0, power |-> 0]

(***************************************************************************)
(* Initial state: the App built by main, run_app about to call on_tick     *)
(***************************************************************************)
Init ==
    /\ pc = "startup"
    /\ attempt = 0
    /\ phase = "call"
    /\ idx = 0
    /\ qn = 0
    /\ tmp = DefaultData
    /\ data = [c \in Channels |-> DefaultData]
    /\ ch \in Channels
    /\ vsel = "Measure"
    /\ input_title = ""
    /\ input = <<>>
    /\ sent = <<>>
    /\ rx = <<>>
    /\ cmd = NoCmd
    /\ run = 0
    /\ ticks = 0
    /\ results = <<>>
    /\ data0 = [c \in Channels |-> DefaultData]
    /\ issued = <<>>
    /\ key = "none"
    /\ stream = NoStream
    /\ reply = NoReply
    /\ arg = <<>>
    /\ parsed = NoParse

ui == <<ch, vsel, input_title, input, cmd, key>>
lib == <<stream, reply, arg, parsed>>
wire == <<sent, rx>>
sampler == <<phase, idx, qn, tmp, data, run, issued>>
pass == <<attempt, ticks, results, data0>>

(***************************************************************************)
(* on_tick                                                                 *)
(***************************************************************************)
\* run_app returns (or panics): main drops the App and with it the socket.
Exit(how) ==
    /\ pc' = how
    /\ sent' = <<>>
    /\ rx' = <<>>

\* The on_tick future ends without a result (an error returned with ?, or
\* the future dropped by the timeout): its locals are gone.
DropFuture ==
    /\ phase' = "idle"
    /\ idx' = 0
    /\ qn' = 0
    /\ tmp' = DefaultData
    /\ issued' = <<>>

\* Dp800::q up to its read_line: the query is written and flushed.
\* log is what the current on_tick call has issued before it.
WriteQuery(c, k, r, log) ==
    /\ sent' = Append(sent, Req(c, k, r))
    /\ issued' = Append(log, [ev |-> "query", ch |-> c, q |-> QName[k]])

StoreEvent(c) == [ev |-> "store", ch |-> c, q |-> "none"]

\* on_tick is called: the loop over self.data starts at the first channel
\* and writes its first query.
CallOnTick ==
    /\ pc \in {"startup", "tick"}
    /\ phase = "call"
    /\ run' = run + 1
    /\ idx' = 1
    /\ qn' = 1
    /\ tmp' = DefaultData
    /\ WriteQuery(1, 1, run', <<>>)
    /\ phase' = "read"
    /\ UNCHANGED lib
    /\ UNCHANGED <<pc, data, rx, ui, pass>>

\* read_line returns a line that parses, not the last of the channel: the
\* field is kept and the next query written.
ReadField ==
    /\ pc \in {"startup", "tick"}
    /\ phase = "read"
    /\ rx # <<>>
    /\ ParseOk(Head(rx), QName[qn])
    /\ qn < NUM_Q
    /\ rx' = Tail(rx)
    /\ tmp' = ApplyLine(tmp, Req(idx, qn, run), Head(rx))
    /\ data' = Store(data, idx, qn, tmp')
    /\ qn' = qn + 1
    /\ WriteQuery(idx, qn', run, issued)
    /\ UNCHANGED lib
    /\ UNCHANGED <<pc, phase, idx, run, ui, pass>>

\* The last query of a channel parses: the slot is assigned, the loop moves
\* to the next channel and writes its first query.
ReadLast ==
    /\ pc \in {"startup", "tick"}
    /\ phase = "read"
    /\ rx # <<>>
    /\ ParseOk(Head(rx), QName[qn])
    /\ qn = NUM_Q
    /\ idx < NUM_CH
    /\ rx' = Tail(rx)
    /\ data' = Store(data, idx, qn, ApplyLine(tmp, Req(idx, qn, run), Head(rx)))
    /\ tmp' = DefaultData
    /\ idx' = idx + 1
    /\ qn' = 1
    /\ WriteQuery(idx', 1, run, Append(issued, StoreEvent(idx)))
    /\ UNCHANGED lib
    /\ UNCHANGED <<pc, phase, run, ui, pass>>

\* The last query of the last channel parses: on_tick returns Ok(()).
\* At startup run_app enters its loop; in the retry loop the match arm
\* Ok(result) => result? falls through to the next iteration of the for.
OnTickOk ==
    /\ pc \in {"startup", "tick"}
    /\ phase = "read"
    /\ rx # <<>>
    /\ ParseOk(Head(rx), QName[qn])
    /\ qn = NUM_Q
    /\ idx = NUM_CH
    /\ rx' = Tail(rx)
    /\ data' = Store(data, idx, qn, ApplyLine(tmp, Req(idx, qn, run), Head(rx)))
    /\ issued' = Append(issued, StoreEvent(idx))
    /\ tmp' = DefaultData
    /\ idx' = 0
    /\ qn' = 0
    /\ results' = Append(results, Result("ok"))
    /\ IF pc = "tick" /\ AfterOk(attempt) # 0
       THEN /\ attempt' = AfterOk(attempt)
            /\ phase' = "call"
            /\ pc' = pc
       ELSE /\ attempt' = 0
            /\ phase' = "idle"
            /\ pc' = "poll"
    /\ UNCHANGED lib
    /\ UNCHANGED <<run, sent, ui, ticks, data0>>

\* The line read does not parse as the expected type: q_parse returns Err,
\* on_tick returns it with ?, and so does run_app (result?).
OnTickParseError ==
    /\ pc \in {"startup", "tick"}
    /\ phase = "read"
    /\ rx # <<>>
    /\ ~ParseOk(Head(rx), QName[qn])
    /\ results' = Append(results, Result("parse"))
    /\ DropFuture
    /\ Exit("fatal")
    /\ UNCHANGED lib
    /\ UNCHANGED <<data, run, ui, attempt, ticks, data0>>

\* The write or the read fails (connection lost, read deadline): an io::Error
\* that on_tick and run_app return with ?.
OnTickIoError ==
    /\ pc \in {"startup", "tick"}
    /\ phase = "read"
    /\ rx = <<>>
    /\ results' = Append(results, Result("io"))
    /\ DropFuture
    /\ Exit("fatal")
    /\ UNCHANGED lib
    /\ UNCHANGED <<data, run, ui, attempt, ticks, data0>>

(***************************************************************************)
(* The device                                                              *)
(***************************************************************************)
\* The device acts while run_app is suspended: waiting for a line or asleep
\* (the backoff of the retry loop, the settle delay after set_ch).
Suspended == phase = "read" \/ pc \in {"backoff", "settle"}

\* The device answers the oldest request it holds.
DeviceAnswer ==
    /\ Suspended
    /\ sent # <<>>
    /\ rx' = Append(rx, Line(Head(sent)))
    /\ sent' = Tail(sent)
    /\ UNCHANGED lib
    /\ UNCHANGED <<pc, sampler, ui, pass>>

\* The device never answers the oldest request it holds: a query run_app
\* gave up on, or one of several it holds.
DeviceDrop ==
    /\ Suspended
    /\ sent # <<>>
    /\ phase = "read" => Len(sent) > 1
    /\ sent' = Tail(sent)
    /\ UNCHANGED lib
    /\ UNCHANGED <<pc, rx, sampler, ui, pass>>

(***************************************************************************)
(* The retry loop                                                          *)
(***************************************************************************)
\* last_tick.elapsed() >= tick_rate: the retry loop is entered.
Tick ==
    /\ pc = "poll"
    /\ ticks < MaxTicks
    /\ ticks' = ticks + 1
    /\ attempt' = 1
    /\ results' = <<>>
    /\ data0' = data
    /\ cmd' = NoCmd
    /\ key' = "none"
    /\ phase' = "call"
    /\ pc' = "tick"
    /\ UNCHANGED lib
    /\ UNCHANGED <<idx, qn, tmp, data, run, issued, wire, ch, vsel, input_title, input>>

\* tokio::time::timeout elapses while on_tick waits for a response line:
\* the on_tick future is dropped where it stands.
Timeout ==
    /\ pc = "tick"
    /\ phase = "read"
    /\ rx = <<>>
    /\ results' = Append(results, Result("timeout"))
    /\ DropFuture
    /\ IF AfterTimeout(attempt) = "fatal"
       THEN Exit("fatal")
       ELSE pc' = "backoff" /\ UNCHANGED wire
    /\ UNCHANGED lib
    /\ UNCHANGED <<data, run, ui, attempt, ticks, data0>>

\* tokio::time::sleep(TIMEOUT) is over: the for loop takes the next attempt.
Backoff ==
    /\ pc = "backoff"
    /\ attempt' = attempt + 1
    /\ phase' = "call"
    /\ pc' = "tick"
    /\ UNCHANGED lib
    /\ UNCHANGED <<idx, qn, tmp, data, run, issued, wire, ui, ticks, results, data0>>

(***************************************************************************)
(* Key handlers                                                            *)
(***************************************************************************)
\* cmd(..).await?: the command is written and run_app goes on at `after`,
\* or the write fails and run_app returns the error.
SendCmd(c, after) ==
    \E written \in BOOLEAN :
        /\ cmd' = IF written THEN c ELSE NoCmd
        /\ IF written THEN pc' = after /\ UNCHANGED wire ELSE Exit("fatal")

\* Char('q') in either mode.
KeyQuit ==
    /\ pc = "poll"
    /\ key' = "q"
    /\ Exit("quit")
    /\ UNCHANGED <<sampler, pass, ch, vsel, input_title, input, cmd, lib>>

KeyRight ==
    /\ pc = "poll"
    /\ input_title = ""
    /\ key' = "Right"
    /\ ch' = ChNext(ch)
    /\ SendCmd(ValueCmd("set_ch", ch', 0), AfterSetCh)
    /\ UNCHANGED <<sampler, pass, vsel, input_title, input, lib>>

KeyLeft ==
    /\ pc = "poll"
    /\ input_title = ""
    /\ key' = "Left"
    /\ ch' = ChPrev(ch)
    /\ SendCmd(ValueCmd("set_ch", ch', 0), AfterSetCh)
    /\ UNCHANGED <<sampler, pass, vsel, input_title, input, lib>>

\* tokio::time::sleep(Duration::from_millis(50)) is over: the handler is
\* left and the loop goes on.
Settle ==
    /\ pc = "settle"
    /\ pc' = "poll"
    /\ UNCHANGED <<sampler, wire, pass, ui, lib>>

KeyUp ==
    /\ pc = "poll"
    /\ input_title = ""
    /\ key' = "Up"
    /\ vsel' = VselPrev(vsel)
    /\ cmd' = NoCmd
    /\ UNCHANGED <<pc, sampler, wire, pass, ch, input_title, input, lib>>

KeyDown_anymode ==
    /\ pc = "poll"
    /\ key' = "Down"
    /\ vsel' = VselNext(vsel)
    /\ cmd' = NoCmd
    /\ UNCHANGED <<pc, sampler, wire, pass, ch, input_title, input, lib>>

KeyDown ==
    /\ pc = "poll"
    /\ input_title = ""
    /\ key' = "Down"
    /\ vsel' = VselNext(vsel)
    /\ cmd' = NoCmd
    /\ UNCHANGED <<pc, sampler, wire, pass, ch, input_title, input, lib>>

\* A handler that also forgets the slot of the channel it toggles.
NavEnterToggle_reset ==
    /\ pc = "poll"
    /\ input_title = ""
    /\ vsel \in {"Measure", "OvpOn", "OcpOn"}
    /\ key' = "Enter"
    /\ SendCmd(StateCmd("set_output_state", ch, Toggled(ChData.output_state)), "poll")
    /\ data' = [data EXCEPT ![ch] = DefaultData]
    /\ UNCHANGED <<phase, idx, qn, tmp, run, issued, pass, ch, vsel, input_title, input, lib>>

\* Enter on Measure, OvpOn, OcpOn: the negation of the known flag is sent.
NavEnterToggle ==
    /\ pc = "poll"
    /\ input_title = ""
    /\ vsel \in {"Measure", "OvpOn", "OcpOn"}
    /\ key' = "Enter"
    /\ SendCmd(CASE vsel = "Measure" ->
                      StateCmd("set_output_state", ch, Toggled(ChData.output_state))
                 [] vsel = "OvpOn" ->
                      StateCmd("set_ovp_on", ch, Toggled(ChData.ovp_on))
                 [] vsel = "OcpOn" ->
                      StateCmd("set_ocp_on", ch, Toggled(ChData.ocp_on)),
               "poll")
    /\ UNCHANGED <<sampler, pass, ch, vsel, input_title, input, lib>>

\* Enter on SetVolt, SetAmp, Ovp, Ocp: the text-entry panel opens.
NavEnterEdit ==
    /\ pc = "poll"
    /\ input_title = ""
    /\ vsel \in {"SetVolt", "SetAmp", "Ovp", "Ocp"}
    /\ key' = "Enter"
    /\ input_title' = Title(vsel)
    /\ cmd' = NoCmd
    /\ UNCHANGED <<pc, sampler, wire, pass, ch, vsel, input, lib>>

\* Enter in text entry: the title is cleared, the buffer parsed with
\* unwrap() and the set command of the selected field written.
TextEnter ==
    /\ pc = "poll"
    /\ input_title # ""
    /\ key' = "Enter"
    /\ input_title' = ""
    /\ IF ~IsNumber(input) \/ SetOp(vsel) = "unreachable"
       THEN /\ Exit("panic")
            /\ cmd' = NoCmd
            /\ input' = IF IsNumber(input) THEN <<>> ELSE input
       ELSE /\ input' = <<>>
            /\ SendCmd(ValueCmd(SetOp(vsel), ch, Milli(input)), "poll")
    /\ UNCHANGED <<sampler, pass, ch, vsel, lib>>

\* A character key other than q in text entry.
TextChar ==
    /\ pc = "poll"
    /\ input_title # ""
    /\ \E c \in Keys :
        /\ Typeable(input, c)
        /\ key' = c
        /\ input' = Push(input, c)
    /\ cmd' = NoCmd
    /\ UNCHANGED <<pc, sampler, wire, pass, ch, vsel, input_title, lib>>

TextBackspace ==
    /\ pc = "poll"
    /\ input_title # ""
    /\ key' = "Backspace"
    /\ input' = Pop(input)
    /\ cmd' = NoCmd
    /\ UNCHANGED <<pc, sampler, wire, pass, ch, vsel, input_title, lib>>

TextEsc_keep ==
    /\ pc = "poll"
    /\ input_title # ""
    /\ key' = "Esc"
    /\ input_title' = ""
    /\ cmd' = NoCmd
    /\ UNCHANGED <<pc, sampler, wire, pass, ch, vsel, input, lib>>

TextEsc ==
    /\ pc = "poll"
    /\ input_title # ""
    /\ key' = "Esc"
    /\ input_title' = ""
    /\ input' = <<>>
    /\ cmd' = NoCmd
    /\ UNCHANGED <<pc, sampler, wire, pass, ch, vsel, lib>>

Next ==
    \/ CallOnTick
    \/ ReadField
    \/ ReadLast
    \/ OnTickOk
    \/ OnTickParseError
    \/ OnTickIoError
    \/ DeviceAnswer
    \/ DeviceDrop
    \/ Tick
    \/ Timeout
    \/ Backoff
    \/ KeyQuit
    \/ KeyRight
    \/ KeyLeft
    \/ Settle
    \/ KeyUp
    \/ KeyDown
    \/ NavEnterToggle
    \/ NavEnterEdit
    \/ TextEnter
    \/ TextChar
    \/ TextBackspace
    \/ TextEsc

Spec == Init /\ [][Next]_vars

\* run_app while no key event arrives: event::poll returns false on every
\* iteration of the loop, so only the sampling passes run.  No key handler
\* reads or writes a variable of the sampler or of the retry loop.
NextNoKeys ==
    \/ CallOnTick
    \/ ReadField
    \/ ReadLast
    \/ OnTickOk
    \/ OnTickParseError
    \/ OnTickIoError
    \/ DeviceAnswer
    \/ DeviceDrop
    \/ Tick
    \/ Timeout
    \/ Backoff

SpecNoKeys == Init /\ [][NextNoKeys]_vars

\* run_app in front of a device that answers every query in time: no
\* attempt is cut off and no read fails, the key handlers run between
\* the sampling passes.
NextResponsive ==
    \/ CallOnTick
    \/ ReadField
    \/ ReadLast
    \/ OnTickOk
    \/ DeviceAnswer
    \/ Tick
    \/ KeyQuit
    \/ KeyRight
    \/ KeyLeft
    \/ Settle
    \/ KeyUp
    \/ KeyDown
    \/ NavEnterToggle
    \/ NavEnterEdit
    \/ TextEnter
    \/ TextChar
    \/ TextBackspace
    \/ TextEsc

SpecResponsive == Init /\ [][NextResponsive]_vars

(***************************************************************************)
(* Dp800::q on its own: one call against a socket that delivers some bytes *)
(***************************************************************************)
LF == "\n"

Bytes == {"O", "N", LF}

RECURSIVE SeqsUpTo(_, _)
SeqsUpTo(S, n) ==
    IF n = 0 THEN {<<>>}
    ELSE LET shorter == SeqsUpTo(S, n - 1)
         IN  shorter \cup {Append(b, x) : b \in shorter, x \in S}

\* What the socket does: wr, whether write_all and flush succeed; bytes, the
\* bytes that arrive; end, what a read past them meets: the connection
\* closed by the peer ("eof") or the read timeout set by connect ("timeout").
Streams ==
    [bytes : SeqsUpTo(Bytes, MaxBytes), end : {"eof", "timeout"}, wr : BOOLEAN]

FirstLF(b) ==
    IF \E k \in 1..Len(b) : b[k] = LF
    THEN CHOOSE k \in 1..Len(b) : b[k] = LF /\ \A j \in 1..(k - 1) : b[j] # LF
    ELSE 0

\* BufRead::read_line: appends to buf all bytes up to and including the
\* first newline or up to the end of the stream (Ok), or fails on a read
\* error.
ReadLine(st) ==
    LET k == FirstLF(st.bytes)
    IN  IF k > 0 THEN [res |-> "ok", buf |-> SubSeq(st.bytes, 1, k), used |-> k]
        ELSE IF st.end = "eof"
        THEN [res |-> "ok", buf |-> st.bytes, used |-> Len(st.bytes)]
        ELSE [res |-> "err", buf |-> st.bytes, used |-> Len(st.bytes)]

\* Dp800::q: write_all?, flush?, read_line?, buf.pop(), Ok(buf).
Q(st) ==
    LET r == ReadLine(st)
    IN  IF ~st.wr THEN [res |-> "err", text |-> <<>>, used |-> 0]
        ELSE IF r.res = "err" THEN [res |-> "err", text |-> <<>>, used |-> r.used]
        ELSE [res |-> "ok", text |-> Pop(r.buf), used |-> r.used]

InitQ ==
    /\ pc = "q"
    /\ attempt = 0
    /\ phase = "idle"
    /\ idx = 0
    /\ qn = 0
    /\ tmp = DefaultData
    /\ data = [c \in Channels |-> DefaultData]
    /\ ch = 1
    /\ vsel = "Measure"
    /\ input_title = ""
    /\ input = <<>>
    /\ sent = <<>>
    /\ rx = <<>>
    /\ cmd = NoCmd
    /\ run = 0
    /\ ticks = 0
    /\ results = <<>>
    /\ data0 = [c \in Channels |-> DefaultData]
    /\ issued = <<>>
    /\ key = "none"
    /\ stream \in Streams
    /\ reply = NoReply
    /\ arg = <<>>
    /\ parsed = NoParse

QCall ==
    /\ pc = "q"
    /\ reply = NoReply
    /\ reply' = Q(stream)
    /\ pc' = "returned"
    /\ UNCHANGED <<stream, arg, parsed, sampler, wire, pass, ui>>

NextQ == QCall

SpecQ == InitQ /\ [][NextQ]_vars

(***************************************************************************)
(* Measurement::from_str on its own: one response line parsed              *)
(***************************************************************************)
\* The characters of a line: a digit, the decimal point, the comma and a
\* character no number contains.
LineChars == {"1", ".", ",", "x"}

Lines == SeqsUpTo(LineChars, MaxLine)

FirstComma(s) ==
    IF \E k \in 1..Len(s) : s[k] = ","
    THEN CHOOSE k \in 1..Len(s) : s[k] = "," /\ \A j \in 1..(k - 1) : s[j] # ","
    ELSE 0

\* s.split(',').collect(): the fields between the commas; a line without a
\* comma is one field, also when it is empty.
RECURSIVE Split(_)
Split(s) ==
    LET k == FirstComma(s)
    IN  IF k = 0 THEN <<s>>
        ELSE <<SubSeq(s, 1, k - 1)>> \o Split(SubSeq(s, k + 1, Len(s)))

\* parse::<f32> of a field.
ParseF32(f) == (\A i \in 1..Len(f) : f[i] \in Accepted) /\ IsNumber(f)

\* Measurement::from_str: split.get(0), get(1), get(2), each parsed; a
\* missing field or a failed parse is the parse error.
FromStr(s) ==
    LET split == Split(s)
    IN  IF Len(split) < 3 \/ \E i \in 1..3 : ~ParseF32(split[i])
        THEN [res |-> "err", voltage |-> 0, current |-> 0, power |-> 0]
        ELSE [res |-> "ok", voltage |-> Milli(split[1]),
              current |-> Milli(split[2]), power |-> Milli(split[3])]

InitParse ==
    /\ pc = "from_str"
    /\ attempt = 0
    /\ phase = "idle"
    /\ idx = 0
    /\ qn = 0
    /\ tmp = DefaultData
    /\ data = [c \in Channels |-> DefaultData]
    /\ ch = 1
    /\ vsel = "Measure"
    /\ input_title = ""
    /\ input = <<>>
    /\ sent = <<>>
    /\ rx = <<>>
    /\ cmd = NoCmd
    /\ run = 0
    /\ ticks = 0
    /\ results = <<>>
    /\ data0 = [c \in Channels |-> DefaultData]
    /\ issued = <<>>
    /\ key = "none"
    /\ stream = NoStream
    /\ reply = NoReply
    /\ arg \in Lines
    /\ parsed = NoParse

FromStrCall ==
    /\ pc = "from_str"
    /\ parsed = NoParse
    /\ parsed' = FromStr(arg)
    /\ pc' = "returned"
    /\ UNCHANGED <<arg, stream, reply, sampler, wire, pass, ui>>

NextParse == FromStrCall

SpecParse == InitParse /\ [][NextParse]_vars

(***************************************************************************)
(* Properties                                                              *)
(***************************************************************************)
LastResult == results[Len(results)]

\* The current pass made three attempts and each ended in the timeout.
AllTimedOut ==
    /\ Len(results) = 3
    /\ \A k \in 1..3 : results[k].res = "timeout"

\* Attempts 1 and 2 of the current pass timed out and attempt 3 returned Ok.
TwoTimeoutsThenOk ==
    /\ Len(results) = 3
    /\ results[1].res = "timeout"
    /\ results[2].res = "timeout"
    /\ results[3].res = "ok"

\* Every field of slot d was returned by the query of on_tick call r that
\* asks channel c for that field.
SlotReadBy(d, c, r) ==
    /\ d.meas_voltage.by = [q |-> "measure", ch |-> c, run |-> r]
    /\ d.meas_voltage.part = 1
    /\ d.meas_current.by = [q |-> "measure", ch |-> c, run |-> r]
    /\ d.meas_current.part = 2
    /\ d.meas_power.by = [q |-> "measure", ch |-> c, run |-> r]
    /\ d.meas_power.part = 3
    /\ d.output_state.by = [q |-> "output_state", ch |-> c, run |-> r]
    /\ d.sp_voltage.by = [q |-> "voltage", ch |-> c, run |-> r]
    /\ d.sp_current.by = [q |-> "current", ch |-> c, run |-> r]
    /\ d.limit_voltage.by = [q |-> "ovp", ch |-> c, run |-> r]
    /\ d.limit_current.by = [q |-> "ocp", ch |-> c, run |-> r]
    /\ d.ovp_on.by = [q |-> "ovp_on", ch |-> c, run |-> r]
    /\ d.ocp_on.by = [q |-> "ocp_on", ch |-> c, run |-> r]

\* C1: within one tick on_tick runs at most 3 times, attempt k+1 starts only
\* when attempt k timed out, and once an attempt returned success no further
\* attempt runs in that tick.
C1_RetryOnlyAfterTimeout ==
    /\ attempt <= 3
    /\ Len(results) <= 3
    /\ pc \in {"tick", "backoff"} =>
           \A k \in 1..Len(results) : results[k].res = "timeout"

\* C2: if all 3 attempts of a tick time out, run_app has ended with an
\* error; the loop does not go on after an exhausted pass.
C2_ExhaustedIsFatal == AllTimedOut => pc = "fatal"

C2_Witness == AllTimedOut /\ pc = "fatal" /\ attempt = 3

C4_ThirdAttemptSucceeds ==
    TwoTimeoutsThenOk =>
        /\ attempt = 0
        /\ pc \notin {"tick", "backoff"}
        /\ results[2].run = results[1].run + 1
        /\ results[3].run = results[1].run + 2
        /\ run = results[3].run
        /\ \A c \in 1..3 : SlotReadBy(data[c], c, results[3].run)

C4_Witness ==
    /\ TwoTimeoutsThenOk
    /\ pc = "poll"
    /\ results[1].idx = 2
    /\ data # data0

\* C5 as stated: a sampling failure of any kind ends the control loop only
\* after 3 attempts have failed.
C5_FatalOnlyAfterThree ==
    (pc = "fatal" /\ attempt >= 1) =>
        /\ attempt = 3
        /\ Len(results) = 3
        /\ \A k \in 1..3 : results[k].res # "ok"

\* C5 amended: a timeout ends the control loop only when it strikes attempt
\* 3; after a timed-out attempt 1 or 2 the loop backs off and goes on.  An
\* I/O or parse error returned by on_tick ends the loop in any attempt.
C5_TimeoutFatalOnlyAtThird ==
    /\ (pc = "fatal" /\ attempt >= 1) =>
           /\ Len(results) = attempt
           /\ LastResult.res \in {"timeout", "io", "parse"}
           /\ LastResult.res = "timeout" => attempt = 3
    /\ (attempt \in 1..2 /\ Len(results) = attempt /\ LastResult.res = "timeout") =>
           pc = "backoff"

C5_Witness ==
    /\ pc = "tick"
    /\ attempt = 3
    /\ phase = "read"
    /\ Len(results) = 2
    /\ results[1].res = "timeout"
    /\ results[2].res = "timeout"

\* C6: in every reachable state each slot is the default value or holds ten
\* fields that all were returned by the eight queries of one single on_tick
\* call for that channel.
C6_SlotsWhole ==
    \A c \in 1..3 :
        \/ data[c] = DefaultData
        \/ \E r \in 1..run : SlotReadBy(data[c], c, r)

\* on_tick was cut off in the middle of channel 2: some of its fields were
\* read, its slot still holds the previous pass's values.
C6_Witness ==
    /\ pc = "backoff"
    /\ results[1].idx = 2
    /\ SlotReadBy(data[1], 1, run)
    /\ SlotReadBy(data[2], 2, 1)
    /\ \E k \in 1..Len(sent) : sent[k].ch = 2 /\ sent[k].q = "ovp" /\ sent[k].run = run

\* C7: at no point are two requests outstanding on the connection: when a
\* query is written, every earlier query has had its response line read.
C7_SingleOutstanding == Len(sent) + Len(rx) <= 1

C8_Order ==
    <<"measure", "output_state", "voltage", "current",
      "ovp", "ocp", "ovp_on", "ocp_on">>

C8_Expected ==
    [i \in 1..27 |->
        LET c == ((i - 1) \div 9) + 1
            k == ((i - 1) % 9) + 1
        IN  IF k <= 8
            THEN [ev |-> "query", ch |-> c, q |-> C8_Order[k]]
            ELSE [ev |-> "store", ch |-> c, q |-> "none"]]

\* C8: an on_tick call issues, for channel 1, then 2, then 3, the eight
\* queries measure, output_state, voltage, current, ovp, ocp, ovp_on, ocp_on
\* in this order, and the slot of a channel is written after its eighth
\* query and before the first query of the next channel; a call that
\* succeeds has issued all of them.
C8_QueryOrder ==
    /\ Len(issued) <= 27
    /\ issued = SubSeq(C8_Expected, 1, Len(issued))
    /\ (Len(results) >= 1 /\ LastResult.res = "ok" /\ LastResult.run = run) =>
           issued = C8_Expected
    /\ phase = "read" =>
           \A c \in 1..3 :
               SlotReadBy(data[c], c, run) <=>
                   \E i \in 1..Len(issued) :
                       issued[i] = [ev |-> "store", ch |-> c, q |-> "none"]

C8_Witness ==
    /\ pc = "poll"
    /\ ticks = 1
    /\ LastResult.res = "ok"
    /\ issued = C8_Expected

RECURSIVE C9_NextTimes(_, _)
C9_NextTimes(v, n) == IF n = 0 THEN v ELSE VselNext(C9_NextTimes(v, n - 1))

\* C9: for each of the 7 field-cursor values, 7 applications of next() give
\* the starting value and fewer do not, and prev and next are inverse.
C9_VselCycle ==
    /\ vsel \in {"Measure", "SetVolt", "SetAmp", "Ovp", "Ocp", "OvpOn", "OcpOn"}
    /\ \A x \in {vsel, "Measure", "SetVolt", "SetAmp", "Ovp", "Ocp", "OvpOn", "OcpOn"} :
        /\ C9_NextTimes(x, 7) = x
        /\ \A n \in 1..6 : C9_NextTimes(x, n) # x
        /\ VselPrev(VselNext(x)) = x
        /\ VselNext(VselPrev(x)) = x

C9_Witness == pc = "poll" /\ vsel = "Ocp" /\ input_title = "" /\ ticks = 1

Handles(k) == pc = "poll" /\ key' = k

C11_SetCh(c) == [op |-> "set_ch", ch |-> c, state |-> "", milli |-> 0]

\* C11: every channel-next / channel-prev event moves the cursor with
\* wraparound and writes set_ch with the new cursor value, after which
\* run_app is in the settle delay; until the delay is over nothing is
\* written: no command, no query.  (A failed write ends run_app.)
C11_SelectThenSettle ==
    [][/\ Handles("Right") => ch' = (IF ch = 3 THEN 1 ELSE ch + 1)
       /\ Handles("Left") => ch' = (IF ch = 1 THEN 3 ELSE ch - 1)
       /\ (Handles("Right") \/ Handles("Left")) =>
              \/ pc' = "fatal"
              \/ pc' = "settle" /\ cmd' = C11_SetCh(ch') /\ sent' = sent
       /\ ch' # ch => (Handles("Right") \/ Handles("Left"))
       /\ pc = "settle" =>
              /\ pc' = "poll"
              /\ cmd' = cmd
              /\ sent' = sent
              /\ issued' = issued
              /\ ch' = ch]_vars

C11_Witness ==
    /\ pc = "settle"
    /\ key = "Left"
    /\ ch = 3
    /\ cmd = C11_SetCh(3)
    /\ ticks = 1

C12_Flag(v) ==
    CASE v = "Measure" -> data[ch].output_state.of.run % 2 = 1
      [] v = "OvpOn" -> data[ch].ovp_on.of.run % 2 = 1
      [] v = "OcpOn" -> data[ch].ocp_on.of.run % 2 = 1

C12_Op(v) ==
    CASE v = "Measure" -> "set_output_state"
      [] v = "OvpOn" -> "set_ovp_on"
      [] v = "OcpOn" -> "set_ocp_on"

\* C12: in Navigation, Enter on Measure, OvpOn or OcpOn writes one command,
\* set_output_state, set_ovp_on or set_ocp_on, for the current channel with
\* the negation of that flag in the current channel's slot; cursor, slot and
\* mode stay as they are.  (A failed write ends run_app.)
C12_ToggleSendsNegation ==
    [][(Handles("Enter") /\ input_title = "" /\ vsel \in {"Measure", "OvpOn", "OcpOn"}) =>
           \/ pc' = "fatal"
           \/ /\ pc' = "poll"
              /\ cmd' = [op |-> C12_Op(vsel), ch |-> ch,
                         state |-> IF C12_Flag(vsel) THEN "OFF" ELSE "ON",
                         milli |-> 0]
              /\ input_title' = ""
              /\ input' = <<>>
              /\ vsel' = vsel
              /\ ch' = ch
              /\ data' = data]_vars

C12_Witness ==
    /\ pc = "poll"
    /\ key = "Enter"
    /\ ticks = 1
    /\ vsel = "OvpOn"
    /\ ch = 2
    /\ cmd = [op |-> "set_ovp_on", ch |-> 2, state |-> "ON", milli |-> 0]

C13_Title(v) ==
    CASE v = "SetVolt" -> "Voltage Setpoint (V)"
      [] v = "SetAmp" -> "Current Setpoint (A)"
      [] v = "Ovp" -> "Over Voltage Protection (V)"
      [] v = "Ocp" -> "Over Current Protection (A)"

\* C13: in Navigation, Enter on SetVolt, SetAmp, Ovp or Ocp opens text entry
\* for that field with an empty buffer and writes nothing to the device.
C13_EditOpens ==
    [][(Handles("Enter") /\ input_title = "" /\ vsel \in {"SetVolt", "SetAmp", "Ovp", "Ocp"}) =>
           /\ pc' = "poll"
           /\ input_title' = C13_Title(vsel)
           /\ input' = <<>>
           /\ cmd' = NoCmd
           /\ sent' = sent
           /\ vsel' = vsel
           /\ ch' = ch]_vars

C13_Witness ==
    /\ pc = "poll"
    /\ key = "Enter"
    /\ vsel = "SetAmp"
    /\ input_title = "Current Setpoint (A)"
    /\ input = <<>>
    /\ cmd = NoCmd

\* A well-formed number: digits with at most one decimal point, at least one
\* digit.
C14_WellFormed(s) ==
    /\ \A i \in 1..Len(s) : s[i] \in {"0", "1", "2", "3", "4", "5", "6", "7", "8", "9", "."}
    /\ Cardinality({i \in 1..Len(s) : s[i] = "."}) <= 1
    /\ \E i \in 1..Len(s) : s[i] # "."

RECURSIVE C14_Pow10(_)
C14_Pow10(n) == IF n = 0 THEN 1 ELSE 10 * C14_Pow10(n - 1)

C14_Digit(c) ==
    CASE c = "1" -> 1 [] c = "2" -> 2 [] c = "3" -> 3 [] c = "4" -> 4 [] c = "5" -> 5
      [] c = "6" -> 6 [] c = "7" -> 7 [] c = "8" -> 8 [] c = "9" -> 9

\* The weight, in thousandths, of the digit at place i of s.
C14_Weight(s, i) ==
    LET dots == {k \in 1..Len(s) : s[k] = "."}
        d == IF dots = {} THEN Len(s) + 1 ELSE CHOOSE k \in dots : TRUE
    IN  IF i < d THEN 1000 * C14_Pow10(d - 1 - i)
        ELSE IF i - d <= 3 THEN C14_Pow10(3 - (i - d)) ELSE 0

\* The decimal value of s in thousandths, place by place.
RECURSIVE C14_Value(_, _)
C14_Value(s, i) ==
    IF i = 0 THEN 0
    ELSE C14_Value(s, i - 1)
         + (IF s[i] \in {"0", "."} THEN 0 ELSE C14_Digit(s[i]) * C14_Weight(s, i))

C14_Op(v) ==
    CASE v = "SetVolt" -> "set_voltage"
      [] v = "SetAmp" -> "set_current"
      [] v = "Ovp" -> "set_ovp"
      [] v = "Ocp" -> "set_ocp"

\* C14: in text entry, Enter on a well-formed number writes one command,
\* set_voltage, set_current, set_ovp or set_ocp according to the field the
\* entry is for, for the current channel with the value of the buffer; then
\* the buffer is empty and the mode is Navigation.  The buffer 12.5 has the
\* value 12.500.  (A failed write ends run_app.)
C14_EnterDispatches ==
    [][/\ (Handles("Enter") /\ input_title # "" /\ C14_WellFormed(input)) =>
              /\ vsel \in {"SetVolt", "SetAmp", "Ovp", "Ocp"}
              /\ input_title' = ""
              /\ input' = <<>>
              /\ vsel' = vsel
              /\ ch' = ch
              /\ \/ pc' = "fatal"
                 \/ /\ pc' = "poll"
                    /\ cmd' = [op |-> C14_Op(vsel), ch |-> ch, state |-> "",
                               milli |-> C14_Value(input, Len(input))]
       /\ IsNumber(<<"1", "2", ".", "5">>)
       /\ Milli(<<"1", "2", ".", "5">>) = 12500
       /\ C14_Value(<<"1", "2", ".", "5">>, 4) = 12500]_vars

\* The keys ".", "1", Enter for the voltage setpoint of channel 2.
C14_Witness ==
    /\ pc = "poll"
    /\ key = "Enter"
    /\ vsel = "SetVolt"
    /\ ch = 2
    /\ input_title = ""
    /\ input = <<>>
    /\ cmd = [op |-> "set_voltage", ch |-> 2, state |-> "", milli |-> 100]

\* C15: Enter on a buffer that is no well-formed number (empty, a lone ".",
\* two decimal points) does not crash run_app.
C15_MalformedRejected ==
    ~(pc = "panic" /\ key = "Enter" /\ ~C14_WellFormed(input))

\* C16: in text entry, Esc after any appends and backspaces empties the
\* buffer and returns to Navigation, and no key handler from the opening of
\* the entry to the Esc writes a command to the device.
C16_CancelClears ==
    [][/\ (Handles("Esc") /\ input_title # "") =>
              /\ pc' = "poll"
              /\ input_title' = ""
              /\ input' = <<>>
              /\ cmd' = NoCmd
              /\ sent' = sent
              /\ vsel' = vsel
              /\ ch' = ch
              /\ data' = data
       /\ (pc = "poll" /\ input_title' # "") => (cmd' = NoCmd /\ sent' = sent)]_vars

C16_Witness ==
    /\ pc = "poll"
    /\ key = "Esc"
    /\ vsel = "Ovp"
    /\ input_title = ""
    /\ input = <<>>
    /\ cmd = NoCmd

\* C17: the buffer never holds more than 16 characters and holds digits and
\* decimal points only: a character key appends its character when it is a
\* digit or '.' and the buffer is shorter than 16, and changes nothing
\* otherwise.
C17_BufferCap ==
    [][/\ Len(input') <= 16
       /\ \A i \in 1..Len(input') :
              input'[i] \in {"0", "1", "2", "3", "4", "5", "6", "7", "8", "9", "."}
       /\ \A c \in {"0", "1", ".", "x"} :
              (Handles(c) /\ input_title # "") =>
                  input' = IF c # "x" /\ Len(input) < 16
                           THEN input \o <<c>> ELSE input]_vars

C17_Witness ==
    /\ pc = "poll"
    /\ input_title # ""
    /\ key = "0"
    /\ Len(input) = 16

\* C18: the buffer never holds more than one decimal point.
C18_OneDecimalPoint == Cardinality({i \in 1..Len(input) : input[i] = "."}) <= 1

\* C19: while run_app runs, the buffer is empty whenever the mode is
\* Navigation (the title is empty); it has content only in text entry.
C19_BufferOnlyInTextEntry ==
    pc # "panic" => (input_title = "" => input = <<>>)

\* Back in Navigation after an entry of two characters was sent.
C19_Witness ==
    /\ pc = "poll"
    /\ input_title = ""
    /\ input = <<>>
    /\ cmd = [op |-> "set_ocp", ch |-> 3, state |-> "", milli |-> 11000]

\* C22: no key handler changes the Snapshot: every slot is after a
\* Navigation or text-entry event what it was before, also when the handler
\* wrote a command; a slot changes only in a step of on_tick, and then only
\* the slot of the channel on_tick is sampling.
C22_HandlersKeepSnapshot ==
    [][/\ pc \in {"poll", "settle"} => data' = data
       /\ data' # data =>
              /\ pc \in {"startup", "tick"}
              /\ phase = "read"
              /\ \A c \in 1..3 : c # idx => data'[c] = data[c]]_vars

\* The output of channel 1 was just switched on: the slot still holds the
\* state sampled by the last pass.
C22_Witness ==
    /\ pc = "poll"
    /\ key = "Enter"
    /\ ticks = 1
    /\ ch = 1
    /\ cmd = [op |-> "set_output_state", ch |-> 1, state |-> "ON", milli |-> 0]
    /\ data[1].output_state.of = [q |-> "output_state", ch |-> 1, run |-> 4]

\* C23: in text entry the field cursor is SetVolt, SetAmp, Ovp or Ocp, and
\* no step changes the field cursor or the channel cursor while text entry
\* lasts, so Enter in text entry never finds the cursor on Measure, OvpOn or
\* OcpOn (the unreachable!() arm).
C23_TargetFixed ==
    [][/\ input_title # "" => vsel \in {"SetVolt", "SetAmp", "Ovp", "Ocp"}
       /\ input_title' # "" => vsel' \in {"SetVolt", "SetAmp", "Ovp", "Ocp"}
       /\ (input_title # "" /\ input_title' # "") => (vsel' = vsel /\ ch' = ch)
       /\ (Handles("Enter") /\ input_title # "") =>
              /\ vsel \in {"SetVolt", "SetAmp", "Ovp", "Ocp"}
              /\ vsel' = vsel
              /\ ch' = ch]_vars

C23_Witness ==
    /\ pc = "poll"
    /\ input_title = "Over Voltage Protection (V)"
    /\ vsel = "Ovp"
    /\ ch = 2
    /\ key = "."
    /\ input = <<"1", ".">>
    /\ ticks = 1

C24_Fields ==
    {"output_state", "meas_voltage", "meas_current", "meas_power", "sp_voltage",
     "sp_current", "limit_voltage", "limit_current", "ovp_on", "ocp_on"}

\* C24: every line a query returned was the device's response to that very
\* query: each value on_tick holds, in the Data it is building and in the
\* Snapshot, was sent by the device for the request that read it, also after
\* an earlier attempt timed out and its response arrived late.
C24_ResponseMatchesQuery ==
    \A f \in C24_Fields :
        /\ tmp[f].of = tmp[f].by
        /\ \A c \in 1..3 : data[c][f].of = data[c][f].by

(***************************************************************************)
(* Properties of Dp800::q                                                  *)
(***************************************************************************)
\* C20: q returns Ok only when a complete line ending in a newline was read,
\* and then the text of that line without its newline; when the stream
\* ends or the read times out before a newline arrived, q returns an error.
C20_QueryLine ==
    /\ reply.res = "ok" =>
           \E k \in 1..Len(stream.bytes) :
               /\ stream.bytes[k] = "\n"
               /\ \A j \in 1..(k - 1) : stream.bytes[j] # "\n"
               /\ reply.text = SubSeq(stream.bytes, 1, k - 1)
    /\ (reply.res # "none" /\ \A k \in 1..Len(stream.bytes) : stream.bytes[k] # "\n") =>
           reply.res = "err"

(***************************************************************************)
(* Properties of Measurement::from_str                                     *)
(***************************************************************************)
C21_Numeric(f) ==
    /\ \A i \in 1..Len(f) : f[i] \in {"0", "1", "2", "3", "4", "5", "6", "7", "8", "9", "."}
    /\ Cardinality({i \in 1..Len(f) : f[i] = "."}) <= 1
    /\ \E i \in 1..Len(f) : f[i] # "."

C21_Commas(s) == Cardinality({i \in 1..Len(s) : s[i] = ","})

\* C21: from_str returns a Measurement exactly when the line has exactly 3
\* comma-separated fields (2 commas) and each is numeric; fewer fields, more
\* fields or a non-numeric field give the parse error.
C21_ExactlyThreeFields ==
    parsed.res # "none" =>
        /\ parsed.res = "ok" =>
               /\ C21_Commas(arg) = 2
               /\ \A i \in 1..Len(Split(arg)) : C21_Numeric(Split(arg)[i])
        /\ C21_Commas(arg) # 2 => parsed.res = "err"

====
